---- MODULE Spec2Model ----
(***************************************************************************)
(* The upload orchestration of server.js: POST /upload stages a file with  *)
(* the platform (stagedUploadsCreate), posts the bytes to the staged       *)
(* target, registers the file (fileCreate) and polls node(id) until the    *)
(* file is READY with a URL or POLL_ATTEMPTS queries were made.            *)
(*                                                                         *)
(* Each request is one async handler; it yields at every await.  An action *)
(* of the model is the code that runs between two awaits: it consumes the  *)
(* answer of the pending remote call (chosen with \E among the answers the *)
(* platform or the storage can give) and runs up to the next await or to   *)
(* the response.                                                           *)
(***************************************************************************)
EXTENDS Integers, Sequences, FiniteSets, TLC

\* ------------------------------------------------------------ JS values

\* undefined / null of a scalar (string) position
Undefined == "undefined"
\* NaN, the result of parseInt on a string without a leading number
NaN == [nan |-> TRUE]
\* a JS number that is the integer n
Number(n) == [nan |-> FALSE, value |-> n]
\* an object-valued position that holds no value (null or undefined)
Null == [null |-> TRUE]

\* JS truthiness of a string-or-undefined value
Truthy(v) == v \notin {Undefined, ""}

\* ------------------------------------------------------------ bounds

\* longest list of form parameters of a staged target
MaxParams == 2

\* ------------------------------------------------------------ configuration

Digits == {"0", "1", "2", "3", "4", "5", "6", "7", "8", "9"}

DigitVal(c) ==
  CASE c = "0" -> 0 [] c = "1" -> 1 [] c = "2" -> 2 [] c = "3" -> 3
    [] c = "4" -> 4 [] c = "5" -> 5 [] c = "6" -> 6 [] c = "7" -> 7
    [] c = "8" -> 8 [] c = "9" -> 9

RECURSIVE SkipSpace(_)
SkipSpace(s) ==
  IF s # <<>> /\ Head(s) = " " THEN SkipSpace(Tail(s)) ELSE s

RECURSIVE DigitPrefix(_)
DigitPrefix(s) ==
  IF s = <<>> \/ Head(s) \notin Digits THEN <<>>
  ELSE <<Head(s)>> \o DigitPrefix(Tail(s))

RECURSIVE DigitsValue(_)
DigitsValue(d) ==
  IF d = <<>> THEN 0
  ELSE DigitsValue(SubSeq(d, 1, Len(d) - 1)) * 10 + DigitVal(d[Len(d)])

\* parseInt(s, 10) on a string given as its sequence of characters
ParseInt(s) ==
  LET t == SkipSpace(s)
      signed == t # <<>> /\ Head(t) \in {"-", "+"}
      d == DigitPrefix(IF signed THEN Tail(t) ELSE t)
  IN  IF d = <<>> THEN NaN
      ELSE IF signed /\ Head(t) = "-" THEN Number(0 - DigitsValue(d))
      ELSE Number(DigitsValue(d))

\* values of process.env.POLL_ATTEMPTS; <<>> is the unset or empty variable
EnvValues ==
  { <<>>, <<"0">>, <<"1">>, <<"2">>, <<"3">>, <<"-", "1">>, <<" ", "2">>,
    <<"2", "x">>, <<"a", "b", "c">> }

\* parseInt(process.env.POLL_ATTEMPTS || '30', 10)
PollAttemptsOf(env) == ParseInt(IF env = <<>> THEN <<"3", "0">> ELSE env)

\* mutant of LessThan: the loop test written i <= POLL_ATTEMPTS
LessThan_Inclusive(i, n) == ~n.nan /\ i <= n.value

\* mutant of LessThan: the loop test written !(i >= POLL_ATTEMPTS)
LessThan_NotAtLeast(i, n) == n.nan \/ i < n.value

\* i < n in JS, i an integer, n a number or NaN
LessThan(i, n) == ~n.nan /\ i < n.value

\* ------------------------------------------------------------ inputs

\* req.file as multer delivers it (Null: no file field in the request)
Files ==
  { [originalname |-> "cat.png", mimetype |-> <<"i","m","a","g","e","/","p","n","g">>,
     size |-> 1024, buffer |-> "catbytes"],
    [originalname |-> "clip.mp4", mimetype |-> <<"v","i","d","e","o","/","m","p","4">>,
     size |-> 7, buffer |-> "clipbytes"],
    [originalname |-> "doc.pdf",
     mimetype |-> <<"a","p","p","l","i","c","a","t","i","o","n","/","p","d","f">>,
     size |-> 0, buffer |-> "pdfbytes"],
    [originalname |-> "scan.bin", mimetype |-> <<"i","m","a","g","e","s","/","x">>,
     size |-> 3, buffer |-> "scanbytes"] }

\* a fetch() that rejects, or a body that is not JSON: the await throws
FetchFailed == [failed |-> TRUE, message |-> "request to platform failed"]

\* a non-empty errors array of a GraphQL answer
Throttled == <<[message |-> "Throttled"]>>

\* answers with a non-empty errors array, without data and with data
ErrorResults(data) ==
  { [failed |-> FALSE, errors |-> Throttled, data |-> Null],
    [failed |-> FALSE, errors |-> Throttled, data |-> data] }

UserErrorLists ==
  { <<>>,
    <<[field |-> "filename", message |-> "required"]>>,
    <<[field |-> "filename", message |-> "required"],
      [field |-> "mimeType", message |-> "invalid"]>> }

ParamPairs ==
  { [name |-> "key", value |-> "tmp/upload"], [name |-> "acl", value |-> "private"] }

ParamLists ==
  UNION { [1..n -> ParamPairs] : n \in 0..MaxParams }

StagedTargets ==
  { [url |-> "https://storage/upload", resourceUrl |-> "https://storage/tmp/upload",
     parameters |-> ps] : ps \in ParamLists }

\* the staged targets of the runs that do not look at the form
SampleTargets ==
  { t \in StagedTargets : t.parameters \in { <<>>, <<[name |-> "key", value |-> "tmp/upload"]>> } }

\* answers of the stagedUploadsCreate mutation, with a target among targets
StagingResults(targets) ==
  { FetchFailed, [failed |-> FALSE, errors |-> <<>>, data |-> Null] }
  \cup ErrorResults([stagedUploadsCreate |->
                      [stagedTargets |-> <<>>, userErrors |-> <<>>]])
  \cup { [failed |-> FALSE, errors |-> <<>>,
          data |-> [stagedUploadsCreate |-> [stagedTargets |-> ts, userErrors |-> ue]]] :
         ue \in UserErrorLists,
         ts \in { <<>> } \cup { <<t>> : t \in targets } }

\* answers of the storage backend to the multipart POST
StorageStatuses == {200, 204, 403, 500}
StorageAnswers ==
  { FetchFailed }
  \cup { [failed |-> FALSE, status |-> c, body |-> ""] : c \in {200, 204} }
  \cup { [failed |-> FALSE, status |-> c, body |-> b] :
         c \in StorageStatuses \ {200, 204}, b \in {"", "Forbidden"} }

FileKinds == {"GenericFile", "MediaImage", "Video"}

CreatedFiles == { [typename |-> k, id |-> "gid://1"] : k \in FileKinds }

\* answers of the fileCreate mutation
RegistrationResults ==
  { FetchFailed, [failed |-> FALSE, errors |-> <<>>, data |-> Null] }
  \cup ErrorResults([fileCreate |-> [files |-> <<>>, userErrors |-> <<>>]])
  \cup { [failed |-> FALSE, errors |-> <<>>,
          data |-> [fileCreate |-> [files |-> fs, userErrors |-> ue]]] :
         ue \in UserErrorLists,
         fs \in { <<>> } \cup { <<f>> : f \in CreatedFiles } }

\* fileStatus values of the platform (opaque strings but for READY)
Statuses == {"PENDING", "PROCESSING", "READY"}

\* A node as the poll query selects it.  imageUrl is node.image?.url and
\* sourceUrl is node.sources?.[0]?.url; Undefined stands for every way the
\* path can be missing (no image, no sources, empty list, null url).
Node(k, st, u, iu, su) ==
  [typename |-> k, fileStatus |-> st, url |-> u, imageUrl |-> iu, sourceUrl |-> su]

FileUrl == "https://cdn/file"
ImageUrl == "https://cdn/image"
VideoUrl == "https://cdn/video"

\* The answers that follow the query: a node carries the URL field of its own
\* kind only, set or not; a node of another type carries its type tag alone.
SelectedNodes ==
  { Node("GenericFile", st, u, Undefined, Undefined) :
      st \in Statuses \cup {Undefined}, u \in {Undefined, FileUrl} }
  \cup { Node("MediaImage", st, Undefined, iu, Undefined) :
      st \in Statuses \cup {Undefined}, iu \in {Undefined, ImageUrl} }
  \cup { Node("Video", st, Undefined, Undefined, su) :
      st \in Statuses \cup {Undefined}, su \in {Undefined, VideoUrl} }
  \cup { Node("Model3d", Undefined, Undefined, Undefined, Undefined) }

\* READY answers that carry URLs in the fields of the other kinds
ForeignNodes ==
  { Node("GenericFile", "READY", u, ImageUrl, VideoUrl) : u \in {Undefined, FileUrl} }
  \cup { Node("MediaImage", "READY", FileUrl, iu, VideoUrl) : iu \in {Undefined, ImageUrl} }
  \cup { Node("Video", "READY", FileUrl, ImageUrl, su) : su \in {Undefined, VideoUrl} }
  \cup { Node("Model3d", "READY", FileUrl, ImageUrl, VideoUrl) }

Nodes == SelectedNodes \cup ForeignNodes

\* answers of the node(id) status query
PollResults ==
  { FetchFailed, [failed |-> FALSE, errors |-> <<>>, data |-> Null] }
  \cup ErrorResults([node |-> Node("GenericFile", "READY", FileUrl, Undefined, Undefined)])
  \cup { [failed |-> FALSE, errors |-> <<>>, data |-> [node |-> n]] :
         n \in Nodes \cup {Null} }

\* ------------------------------------------------------------ helpers

\* `GraphQL errors: ${JSON.stringify(result.errors)}`, on the error lists of
\* GraphQLErrors
GraphQLErrorsMessage(errors) ==
  CASE errors = Throttled ->
         "GraphQL errors: [{\"message\":\"Throttled\"}]"
    [] OTHER -> "GraphQL errors: []"

\* mutant of callAdmin: the errors array is not looked at
callAdmin_IgnoreErrors(result) ==
  IF result.failed THEN [threw |-> TRUE, message |-> result.message]
  ELSE [threw |-> FALSE, data |-> result.data]

\* callAdmin: the awaited outcome of one GraphQL call, given the raw answer.
\* A rejected fetch or a non-empty errors array throws; else result.data.
callAdmin(result) ==
  IF result.failed THEN [threw |-> TRUE, message |-> result.message]
  ELSE IF Len(result.errors) # 0
       THEN [threw |-> TRUE, message |-> GraphQLErrorsMessage(result.errors)]
  ELSE [threw |-> FALSE, data |-> result.data]

\* s.startsWith(prefix) on character sequences
StartsWith(s, prefix) ==
  Len(s) >= Len(prefix) /\ SubSeq(s, 1, Len(prefix)) = prefix

\* mutant of getShopifyContentType: the prefixes are tested without the slash
getShopifyContentType_NoSlash(mimetype) ==
  IF StartsWith(mimetype, <<"v","i","d","e","o">>) THEN "VIDEO"
  ELSE IF StartsWith(mimetype, <<"i","m","a","g","e">>) THEN "IMAGE"
  ELSE "FILE"

getShopifyContentType(mimetype) ==
  IF StartsWith(mimetype, <<"v","i","d","e","o","/">>) THEN "VIDEO"
  ELSE IF StartsWith(mimetype, <<"i","m","a","g","e","/">>) THEN "IMAGE"
  ELSE "FILE"

\* mutant of uploadForm: the file field is appended before the parameters
uploadForm_FileFirst(target, file) ==
  << [name |-> "file", value |-> file.buffer,
      filename |-> file.originalname, contentType |-> file.mimetype] >>
  \o [p \in 1..Len(target.parameters) |->
        [name |-> target.parameters[p].name, value |-> target.parameters[p].value]]

\* the multipart form: the target's parameters in order, then the file field
uploadForm(target, file) ==
  [p \in 1..Len(target.parameters) |->
     [name |-> target.parameters[p].name, value |-> target.parameters[p].value]]
  \o << [name |-> "file", value |-> file.buffer,
         filename |-> file.originalname, contentType |-> file.mimetype] >>

\* mutant of Ok: every status from 200 up counts as success
Ok_NoUpperBound(status) == status >= 200

\* storageRes.ok
Ok(status) == status >= 200 /\ status <= 299

fileCreateVars(target, file) ==
  [originalSource |-> target.resourceUrl, filename |-> file.originalname,
   contentType |-> getShopifyContentType(file.mimetype)]

\* mutant of ReadyUrl: the MediaImage branch reads node.url
ReadyUrl_DirectUrl(node) ==
  IF node.fileStatus = "READY"
  THEN IF node.typename = "GenericFile" /\ Truthy(node.url) THEN node.url
       ELSE IF node.typename = "MediaImage" /\ Truthy(node.url) THEN node.url
       ELSE IF node.typename = "Video" /\ Truthy(node.sourceUrl) THEN node.sourceUrl
       ELSE Undefined
  ELSE Undefined

\* mutant of ReadyUrl: the test of the status is missing
ReadyUrl_AnyStatus(node) ==
  IF node.typename = "GenericFile" /\ Truthy(node.url) THEN node.url
  ELSE IF node.typename = "MediaImage" /\ Truthy(node.imageUrl) THEN node.imageUrl
  ELSE IF node.typename = "Video" /\ Truthy(node.sourceUrl) THEN node.sourceUrl
  ELSE Undefined

\* The READY branch of the loop body: the URL the loop breaks with, or
\* Undefined when the loop goes on to the delay.
ReadyUrl(node) ==
  IF node.fileStatus = "READY"
  THEN IF node.typename = "GenericFile" /\ Truthy(node.url) THEN node.url
       ELSE IF node.typename = "MediaImage" /\ Truthy(node.imageUrl) THEN node.imageUrl
       ELSE IF node.typename = "Video" /\ Truthy(node.sourceUrl) THEN node.sourceUrl
       ELSE Undefined
  ELSE Undefined

\* mutant of LoopBreaks: a break at the end of the READY branch
LoopBreaks_OnReady(node) == node.fileStatus = "READY"

\* mutant of LoopBreaks: the break statements are missing
LoopBreaks_Never(node) == FALSE

\* the loop leaves through one of the three break statements of the READY branch
LoopBreaks(node) == Truthy(ReadyUrl(node))

\* mutant of HasUserErrors: the test written userErrors.length > 1
HasUserErrors_MoreThanOne(payload) == Len(payload.userErrors) > 1

\* payload.userErrors.length
HasUserErrors(payload) == Len(payload.userErrors) # 0

\* mutant of ValidationFailure: the errors are sent with status 400
ValidationFailure_400(userErrors) == [status |-> 400, body |-> [errors |-> userErrors]]

\* the response to a non-empty userErrors list
ValidationFailure(userErrors) == [status |-> 422, body |-> [errors |-> userErrors]]

\* mutant of StorageFailure: the failure is sent with status 500
StorageFailure_500(storageRes) ==
  [status |-> 500,
   body |-> [error |-> "Storage upload failed", details |-> storageRes.body]]

\* the response to a storage answer that is not ok
StorageFailure(storageRes) ==
  [status |-> storageRes.status,
   body |-> [error |-> "Storage upload failed", details |-> storageRes.body]]

\* mutant of NextLastStatus: a missing status keeps the earlier one
NextLastStatus_Keep(lastStatus, node) ==
  IF Truthy(node.fileStatus) THEN node.fileStatus ELSE lastStatus

\* lastStatus after a non-null node was read
NextLastStatus(lastStatus, node) == node.fileStatus

\* the response sent after the loop
PollOutcome(finalUrl, lastStatus) ==
  IF ~Truthy(finalUrl)
  THEN [status |-> 500,
        body |-> [error |-> "File did not become READY in time",
                  status |-> IF Truthy(lastStatus) THEN lastStatus ELSE "UNKNOWN"]]
  ELSE [status |-> 200, body |-> [url |-> finalUrl]]

\* the catch block's response
CaughtResponse(message) == [status |-> 500, body |-> [error |-> message]]

\* the message of the TypeError thrown on reading a property of undefined
TypeErrorMessage == "Cannot read properties of undefined"

\* ------------------------------------------------------------ state

\* the request slots; reqs (set in Init) are the requests that arrive
AllReqs == {1, 2}

VARIABLES
  POLL_ATTEMPTS,  \* the configured ceiling: Number(n) or NaN
  reqs,           \* the requests of this run
  inputs,         \* the files and staged targets of this run
  pc,             \* pc[r]: where the handler of request r stands
  file,           \* req.file
  target,         \* stagedUploadsCreate.stagedTargets[0]
  created,        \* fileCreate.files[0]
  i,              \* the loop counter
  finalUrl,
  lastStatus,
  response,       \* the response sent (Null: none yet)
  log             \* what the platform and the storage saw of request r

vars ==
  << POLL_ATTEMPTS, reqs, inputs, pc, file, target, created, i, finalUrl, lastStatus,
     response, log >>

\* log[r] before the request made any call
NoCalls ==
  [ staged |-> 0,          \* stagedUploadsCreate calls received
    uploads |-> 0,         \* multipart POSTs received by the storage
    registered |-> 0,      \* fileCreate calls received
    queries |-> 0,         \* node(id) status queries received
    sleeps |-> 0,          \* one-second timers started
    responses |-> 0,       \* responses sent to the caller
    stageErrors |-> <<>>,  \* the userErrors the staging call returned
    refused |-> Null,      \* the storage's answer, when it was not 2xx
    fileErrors |-> <<>>,   \* the userErrors the registration call returned
    rpcErrors |-> "none",  \* the call that was answered with a non-empty errors array
    stage |-> "none",      \* how the staging call was answered
    upload |-> "none",     \* how the upload was answered
    register |-> "none",   \* how the registration call was answered
    form |-> <<>>,         \* the fields of the last multipart POST
    files |-> Null,        \* the input of the last fileCreate call
    last |-> [kind |-> "none", status |-> Undefined, url |-> Undefined],
                           \* the answer to the last status query
    seen |-> Undefined,    \* the last non-empty status a query answered
    ready |-> FALSE,       \* some query answered status READY
    found |-> FALSE,       \* some query answered READY with the kind's URL
    readyNoUrl |-> FALSE,  \* some query answered READY without the kind's URL
    pendingOnly |-> TRUE ] \* every query answered a node with a status, not READY

\* the URL of a node in the field of its own type tag
KindUrl(node) ==
  CASE node.typename = "GenericFile" -> node.url
    [] node.typename = "MediaImage" -> node.imageUrl
    [] node.typename = "Video" -> node.sourceUrl
    [] OTHER -> Undefined

\* log[r] after the status query was answered by outcome out
Answered(l, out) ==
  IF out.threw \/ out.data = Null
  THEN [l EXCEPT !.last = [kind |-> "threw", status |-> Undefined, url |-> Undefined],
                 !.pendingOnly = FALSE]
  ELSE IF out.data.node = Null
  THEN [l EXCEPT !.last = [kind |-> "null", status |-> Undefined, url |-> Undefined],
                 !.pendingOnly = FALSE]
  ELSE LET n == out.data.node IN
       [l EXCEPT !.last = [kind |-> "node", status |-> n.fileStatus, url |-> KindUrl(n)],
                 !.seen = IF Truthy(n.fileStatus) THEN n.fileStatus ELSE @,
                 !.ready = @ \/ n.fileStatus = "READY",
                 !.found = @ \/ (n.fileStatus = "READY" /\ Truthy(KindUrl(n))),
                 !.readyNoUrl = @ \/ (n.fileStatus = "READY" /\ ~Truthy(KindUrl(n))),
                 !.pendingOnly = @ /\ Truthy(n.fileStatus) /\ n.fileStatus # "READY"]

\* the userErrors of a call's outcome (none when the call threw)
UserErrorsOf(out, field) ==
  IF out.threw \/ out.data = Null THEN <<>> ELSE out.data[field].userErrors

\* the answer of a GraphQL call carries a non-empty errors array
ErrorsIn(result) == ~result.failed /\ Len(result.errors) # 0

\* How a mutation was answered: "threw" when the call cannot return data,
\* "userErrors" when the payload carries user errors, else "clean".
AnswerOf(result, field) ==
  IF result.failed \/ ErrorsIn(result) \/ result.data = Null THEN "threw"
  ELSE IF result.data[field].userErrors # <<>> THEN "userErrors"
  ELSE "clean"

\* how the storage answered: "threw", "2xx" or "refused"
StorageAnswerOf(storageRes) ==
  IF storageRes.failed THEN "threw"
  ELSE IF storageRes.status \in 200..299 THEN "2xx"
  ELSE "refused"

\* the storage's answer when it carries a status outside 200..299
Refusal(storageRes) ==
  IF ~storageRes.failed /\ storageRes.status \notin 200..299 THEN storageRes ELSE Null

\* The state after startup: the ceiling is read from one of envs; the run has
\* the requests rs, which upload files of fs and are staged at targets of ts.
InitWith(rs, envs, fs, ts) ==
  /\ POLL_ATTEMPTS \in { PollAttemptsOf(env) : env \in envs }
  /\ reqs = rs
  /\ inputs = [files |-> fs, targets |-> ts]
  /\ pc = [r \in AllReqs |-> "idle"]
  /\ file = [r \in AllReqs |-> Null]
  /\ target = [r \in AllReqs |-> Null]
  /\ created = [r \in AllReqs |-> Null]
  /\ i = [r \in AllReqs |-> 0]
  /\ finalUrl = [r \in AllReqs |-> Undefined]
  /\ lastStatus = [r \in AllReqs |-> Undefined]
  /\ response = [r \in AllReqs |-> Null]
  /\ log = [r \in AllReqs |-> NoCalls]

\* one request, every ceiling
Init == InitWith({1}, EnvValues, Files, SampleTargets)

\* two requests in flight together, ceiling 2, one file and one target
InitConcurrent ==
  InitWith({1, 2}, { <<"2">> },
           { f \in Files : f.originalname = "cat.png" },
           { t \in StagedTargets : t.parameters = <<>> })

\* one request, ceiling 1, every file and every staged target
InitForm == InitWith({1}, { <<"1">> }, Files, StagedTargets)

\* ------------------------------------------------------------ actions

\* mutant of Local: the variable is declared once, outside the handler
Local_Shared(f, r, v) == [q \in AllReqs |-> v]

\* assignment of v to a variable declared inside the handler of request r
Local(f, r, v) == [f EXCEPT ![r] = v]

\* mutant of Send: the return is missing, the handler goes on
Send_NoReturn(r, resp, l) ==
  /\ response' = [response EXCEPT ![r] = resp]
  /\ pc' = pc
  /\ log' = [log EXCEPT ![r] = [l EXCEPT !.responses = @ + 1]]

\* return res.status(..).json(..): the response is sent and the handler ends
Send(r, resp, l) ==
  /\ response' = [response EXCEPT ![r] = resp]
  /\ pc' = [pc EXCEPT ![r] = "done"]
  /\ log' = [log EXCEPT ![r] = [l EXCEPT !.responses = @ + 1]]

\* The loop test with counter n: the next status query is sent, or the loop
\* is left and the response after it is sent.
LoopTest(r, n, url, status, l) ==
  IF LessThan(n, POLL_ATTEMPTS)
  THEN /\ pc' = [pc EXCEPT ![r] = "polling"]
       /\ log' = [log EXCEPT ![r] = [l EXCEPT !.queries = @ + 1]]
       /\ UNCHANGED response
  ELSE Send(r, PollOutcome(url, status), l)

\* POST /upload arrives: the file check, then the staging call is sent
Receive(r) ==
  /\ r \in reqs
  /\ pc[r] = "idle"
  /\ \E f \in inputs.files \cup {Null} :
       /\ file' = [file EXCEPT ![r] = f]
       /\ IF f = Null
          THEN Send(r, [status |-> 400, body |-> [error |-> "No file provided"]], log[r])
          ELSE /\ pc' = [pc EXCEPT ![r] = "staging"]
               /\ log' = [log EXCEPT ![r].staged = @ + 1]
               /\ UNCHANGED response
  /\ UNCHANGED << POLL_ATTEMPTS, reqs, inputs, target, created, i, finalUrl, lastStatus >>

\* the staging call returns: userErrors check, the form is built and posted
StagingReturns(r) ==
  /\ r \in reqs
  /\ pc[r] = "staging"
  /\ \E result \in StagingResults(inputs.targets) :
       LET out == callAdmin(result)
           l == [log[r] EXCEPT !.stageErrors = UserErrorsOf(out, "stagedUploadsCreate"),
                               !.rpcErrors = IF ErrorsIn(result) THEN "staging" ELSE @,
                               !.stage = AnswerOf(result, "stagedUploadsCreate")]
       IN
       IF out.threw
       THEN Send(r, CaughtResponse(out.message), l) /\ UNCHANGED target
       ELSE IF out.data = Null
       THEN Send(r, CaughtResponse(TypeErrorMessage), l) /\ UNCHANGED target
       ELSE LET payload == out.data.stagedUploadsCreate IN
            IF HasUserErrors(payload)
            THEN Send(r, ValidationFailure(payload.userErrors), l) /\ UNCHANGED target
            ELSE IF payload.stagedTargets = <<>>
            THEN Send(r, CaughtResponse(TypeErrorMessage), l) /\ UNCHANGED target
            ELSE LET t == payload.stagedTargets[1] IN
                 /\ target' = [target EXCEPT ![r] = t]
                 /\ pc' = [pc EXCEPT ![r] = "uploading"]
                 /\ log' = [log EXCEPT ![r] = [l EXCEPT !.uploads = @ + 1,
                                                        !.form = uploadForm(t, file[r])]]
                 /\ UNCHANGED response
  /\ UNCHANGED << POLL_ATTEMPTS, reqs, inputs, file, created, i, finalUrl, lastStatus >>

\* the storage answers: ok check, then the registration call is sent
UploadReturns(r) ==
  /\ r \in reqs
  /\ pc[r] = "uploading"
  /\ \E storageRes \in StorageAnswers :
       LET l == [log[r] EXCEPT !.refused = Refusal(storageRes),
                               !.upload = StorageAnswerOf(storageRes)]
       IN
       IF storageRes.failed
       THEN Send(r, CaughtResponse(storageRes.message), l)
       ELSE IF ~Ok(storageRes.status)
       THEN Send(r, StorageFailure(storageRes), l)
       ELSE /\ pc' = [pc EXCEPT ![r] = "registering"]
            /\ log' = [log EXCEPT ![r] = [l EXCEPT !.registered = @ + 1,
                                   !.files = fileCreateVars(target[r], file[r])]]
            /\ UNCHANGED response
  /\ UNCHANGED << POLL_ATTEMPTS, reqs, inputs, file, target, created, i, finalUrl, lastStatus >>

\* the registration call returns: userErrors check, then the loop is entered
RegistrationReturns(r) ==
  /\ r \in reqs
  /\ pc[r] = "registering"
  /\ \E result \in RegistrationResults :
       LET out == callAdmin(result)
           l == [log[r] EXCEPT !.fileErrors = UserErrorsOf(out, "fileCreate"),
                               !.rpcErrors = IF ErrorsIn(result) THEN "registration" ELSE @,
                               !.register = AnswerOf(result, "fileCreate")]
       IN
       IF out.threw
       THEN Send(r, CaughtResponse(out.message), l) /\ UNCHANGED created
       ELSE IF out.data = Null
       THEN Send(r, CaughtResponse(TypeErrorMessage), l) /\ UNCHANGED created
       ELSE LET payload == out.data.fileCreate IN
            IF HasUserErrors(payload)
            THEN Send(r, ValidationFailure(payload.userErrors), l) /\ UNCHANGED created
            ELSE IF payload.files = <<>>
            THEN Send(r, CaughtResponse(TypeErrorMessage), l) /\ UNCHANGED created
            ELSE /\ created' = [created EXCEPT ![r] = payload.files[1]]
                 /\ LoopTest(r, 0, Undefined, Undefined, l)
  /\ i' = Local(i, r, 0)
  /\ finalUrl' = Local(finalUrl, r, Undefined)
  /\ lastStatus' = Local(lastStatus, r, Undefined)
  /\ UNCHANGED << POLL_ATTEMPTS, reqs, inputs, file, target >>

\* a status query returns: the loop body up to a break or to the delay
PollReturns(r) ==
  /\ r \in reqs
  /\ pc[r] = "polling"
  /\ \E result \in PollResults :
       LET out == callAdmin(result)
           l == [Answered(log[r], out) EXCEPT
                   !.rpcErrors = IF ErrorsIn(result) THEN "poll" ELSE @]
       IN
       IF out.threw
       THEN Send(r, CaughtResponse(out.message), l) /\ UNCHANGED << finalUrl, lastStatus >>
       ELSE IF out.data = Null
       THEN Send(r, CaughtResponse(TypeErrorMessage), l)
            /\ UNCHANGED << finalUrl, lastStatus >>
       ELSE IF out.data.node = Null
       THEN Send(r, PollOutcome(finalUrl[r], lastStatus[r]), l)
            /\ UNCHANGED << finalUrl, lastStatus >>
       ELSE LET node == out.data.node
                status == NextLastStatus(lastStatus[r], node)
            IN
            /\ lastStatus' = Local(lastStatus, r, status)
            /\ IF LoopBreaks(node)
               THEN /\ finalUrl' = Local(finalUrl, r, ReadyUrl(node))
                    /\ Send(r, PollOutcome(ReadyUrl(node), status), l)
               ELSE /\ pc' = [pc EXCEPT ![r] = "sleeping"]
                    /\ log' = [log EXCEPT ![r] = [l EXCEPT !.sleeps = @ + 1]]
                    /\ UNCHANGED << finalUrl, response >>
  /\ UNCHANGED << POLL_ATTEMPTS, reqs, inputs, file, target, created, i >>

\* the one-second timer fires: i++ and the loop test
TimerFires(r) ==
  /\ r \in reqs
  /\ pc[r] = "sleeping"
  /\ i' = Local(i, r, i[r] + 1)
  /\ LoopTest(r, i[r] + 1, finalUrl[r], lastStatus[r], log[r])
  /\ UNCHANGED << POLL_ATTEMPTS, reqs, inputs, file, target, created, finalUrl, lastStatus >>

Next ==
  \E r \in AllReqs :
    \/ Receive(r)
    \/ StagingReturns(r)
    \/ UploadReturns(r)
    \/ RegistrationReturns(r)
    \/ PollReturns(r)
    \/ TimerFires(r)

Spec == Init /\ [][Next]_vars

\* Every awaited call settles and every timer fires: the step of a handler
\* that waits for an answer or for the delay is eventually taken.
Settles(r) ==
  /\ WF_vars(StagingReturns(r))
  /\ WF_vars(UploadReturns(r))
  /\ WF_vars(RegistrationReturns(r))
  /\ WF_vars(PollReturns(r))
  /\ WF_vars(TimerFires(r))

SpecConcurrent == InitConcurrent /\ [][Next]_vars

SpecForm == InitForm /\ [][Next]_vars

FairSpec == Spec /\ \A r \in AllReqs : Settles(r)

\* ------------------------------------------------------------ properties

\* the number of status queries the loop test admits
Ceiling ==
  IF POLL_ATTEMPTS.nan \/ POLL_ATTEMPTS.value < 0 THEN 0 ELSE POLL_ATTEMPTS.value

\* the timeout response with status s
Timeout(s) ==
  [status |-> 500, body |-> [error |-> "File did not become READY in time", status |-> s]]

\* request r has sent the timeout response
TimedOut(r) ==
  /\ pc[r] = "done"
  /\ response[r].status = 500
  /\ DOMAIN response[r].body = {"error", "status"}

\* the last status query of r was answered by a node
LastIsNode(r) == log[r].last.kind = "node"

\* the last status query of r was answered READY with the URL of the node's kind
LastIsReadyWithUrl(r) ==
  LastIsNode(r) /\ log[r].last.status = "READY" /\ Truthy(log[r].last.url)

\* the last status query of r was answered READY without the URL of the node's kind
LastIsReadyNoUrl(r) ==
  LastIsNode(r) /\ log[r].last.status = "READY" /\ ~Truthy(log[r].last.url)

\* C1: with a positive ceiling, a request whose status queries were all
\* answered by a node with a status other than READY never makes more than
\* `ceiling` queries, and when it has answered it has made exactly `ceiling`
\* queries and the answer is the timeout response with the status of the
\* last answer.
C1_ExactlyCeilingQueries ==
  \A r \in AllReqs :
    (created[r] # Null /\ log[r].pendingOnly /\ Ceiling >= 1) =>
      /\ log[r].queries <= Ceiling
      /\ pc[r] # "done" => response[r] = Null
      /\ pc[r] = "done" =>
           /\ log[r].queries = Ceiling
           /\ response[r] = Timeout(log[r].last.status)

C1_Witness ==
  \E r \in AllReqs :
    /\ created[r] # Null /\ log[r].pendingOnly /\ pc[r] = "done"
    /\ Ceiling = 3 /\ log[r].queries = 3
    /\ response[r] = Timeout("PROCESSING")

\* C2: as soon as a status query is answered READY with the URL of the
\* node's kind, whatever the earlier answers were, the request has answered
\* 200 {url} with exactly that URL, and it makes no further status query.
C2_StopsAtFirstReadyWithUrl ==
  /\ [](\A r \in AllReqs :
          log[r].found =>
            /\ LastIsReadyWithUrl(r)
            /\ pc[r] = "done"
            /\ response[r] = [status |-> 200, body |-> [url |-> log[r].last.url]])
  /\ [][\A r \in AllReqs : log[r].found => log'[r].queries = log[r].queries]_vars

C2_Witness ==
  \E r \in AllReqs :
    /\ log[r].found /\ log[r].queries = 2 /\ log[r].seen = "READY"
    /\ ~log[r].readyNoUrl
    /\ response[r] = [status |-> 200, body |-> [url |-> ImageUrl]]

\* C3 (as stated): once a status query is answered by a null node the request
\* has answered, with the timeout response carrying status "UNKNOWN", whatever
\* the earlier answers were.
C3_NullNodeAnswersUnknown ==
  \A r \in AllReqs :
    log[r].last.kind = "null" => pc[r] = "done" /\ response[r] = Timeout("UNKNOWN")

\* C4 (as stated): a timeout response sent after the last of `ceiling`
\* queries was answered by a node carries the last non-empty status that any
\* query of the request answered, and "UNKNOWN" only when there was none.
C4_TimeoutCarriesLastSeenStatus ==
  \A r \in AllReqs :
    (TimedOut(r) /\ LastIsNode(r)) =>
      response[r].body.status =
        (IF Truthy(log[r].seen) THEN log[r].seen ELSE "UNKNOWN")

\* C5: a status query answered READY without the URL of the node's kind does
\* not end polling: the handler starts the delay without answering and
\* without a further query, and after the delay it sends the next query when
\* fewer than `ceiling` were made (else the timeout response with status
\* READY); a later answer READY with the URL still gives 200.
C5_ReadyWithoutUrlIsPending ==
  /\ [][\A r \in AllReqs :
          /\ (pc[r] = "polling" /\ pc'[r] # "polling" /\ LastIsReadyNoUrl(r)') =>
               /\ pc'[r] = "sleeping"
               /\ response'[r] = Null
               /\ log'[r].queries = log[r].queries
               /\ log'[r].sleeps = log[r].sleeps + 1
          /\ (pc[r] = "sleeping" /\ pc'[r] # "sleeping" /\ LastIsReadyNoUrl(r)) =>
               IF log[r].queries < Ceiling
               THEN /\ pc'[r] = "polling"
                    /\ log'[r].queries = log[r].queries + 1
                    /\ response'[r] = Null
               ELSE pc'[r] = "done" /\ response'[r] = Timeout("READY")]_vars
  /\ [](\A r \in AllReqs :
          (log[r].readyNoUrl /\ LastIsReadyWithUrl(r)) =>
            response[r] = [status |-> 200, body |-> [url |-> log[r].last.url]])

C5_Witness ==
  \E r \in AllReqs :
    /\ log[r].readyNoUrl /\ LastIsReadyWithUrl(r) /\ log[r].queries = 2
    /\ response[r] = [status |-> 200, body |-> [url |-> FileUrl]]

\* C6 (as stated): no status query is sent after a query was answered READY,
\* and none after the ceiling-th query.
C6_NoQueryAfterReady ==
  [][\A r \in AllReqs :
       (log[r].ready \/ log[r].queries >= Ceiling) =>
         log'[r].queries = log[r].queries]_vars

\* C6 (amended): no status query is sent after a query was answered READY
\* with the URL of the node's kind, and none after the ceiling-th query.
C6_NoQueryAfterReadyWithUrl ==
  [][\A r \in AllReqs :
       (log[r].found \/ log[r].queries >= Ceiling) =>
         log'[r].queries = log[r].queries]_vars

C6_Witness ==
  \E r \in AllReqs :
    /\ log[r].readyNoUrl /\ log[r].found /\ pc[r] = "done"
    /\ log[r].queries = 3 /\ Ceiling = 30
    /\ log[r].last.url = VideoUrl

\* C7: when the staging call returned a non-empty userErrors list, the
\* request has answered 422 {errors: that list}, after one staging call and
\* without any upload, registration call or status query.
C7_StagingUserErrors ==
  \A r \in AllReqs :
    log[r].stageErrors # <<>> =>
      /\ pc[r] = "done"
      /\ response[r] = [status |-> 422, body |-> [errors |-> log[r].stageErrors]]
      /\ log[r].staged = 1
      /\ log[r].uploads = 0 /\ log[r].registered = 0 /\ log[r].queries = 0

C7_Witness ==
  \E r \in AllReqs :
    /\ log[r].stageErrors = <<[field |-> "filename", message |-> "required"]>>
    /\ response[r].status = 422

\* C8: when the storage answered the upload with a status c outside 200..299
\* and body b, the request has answered with status c and body
\* {error: "Storage upload failed", details: b}, after exactly one upload and
\* without any registration call or status query.
C8_StorageFailure ==
  \A r \in AllReqs :
    log[r].refused # Null =>
      /\ pc[r] = "done"
      /\ response[r] =
           [status |-> log[r].refused.status,
            body |-> [error |-> "Storage upload failed",
                      details |-> log[r].refused.body]]
      /\ log[r].uploads = 1
      /\ log[r].registered = 0 /\ log[r].queries = 0

C8_Witness ==
  \E r \in AllReqs :
    /\ log[r].refused # Null
    /\ response[r] =
         [status |-> 403,
          body |-> [error |-> "Storage upload failed", details |-> "Forbidden"]]

\* the request was answered after the upload call, before any registration
AnsweredAtUpload(r) ==
  pc[r] = "done" /\ log[r].uploads = 1 /\ log[r].registered = 0

\* C9 (as stated): a storage failure is answered with status 500.
C9_StorageFailureIs500 ==
  \A r \in AllReqs :
    (AnsweredAtUpload(r) /\ log[r].refused # Null) => response[r].status = 500

\* C9 (amended): a storage failure is answered with the storage's own status
\* and a body {error, details}, so with 500 only when the storage answered
\* 500; an upload that fails in transport is answered 500 {error}.
C9_StorageFailureOwnStatus ==
  \A r \in AllReqs :
    /\ log[r].refused # Null =>
         /\ AnsweredAtUpload(r)
         /\ response[r].status = log[r].refused.status
         /\ response[r].status = 500 <=> log[r].refused.status = 500
         /\ DOMAIN response[r].body = {"error", "details"}
    /\ (AnsweredAtUpload(r) /\ log[r].refused = Null) =>
         /\ response[r].status = 500
         /\ DOMAIN response[r].body = {"error"}

C9_Witness ==
  \E r \in AllReqs :
    /\ AnsweredAtUpload(r) /\ log[r].refused # Null
    /\ response[r].status = 403
    /\ response[r].body.details = ""

\* C10: when the registration call returned a non-empty userErrors list, the
\* request has answered 422 {errors: that list}, after exactly one
\* registration call and without any status query.
C10_RegistrationUserErrors ==
  \A r \in AllReqs :
    log[r].fileErrors # <<>> =>
      /\ pc[r] = "done"
      /\ response[r] = [status |-> 422, body |-> [errors |-> log[r].fileErrors]]
      /\ log[r].registered = 1
      /\ log[r].queries = 0 /\ log[r].sleeps = 0

C10_Witness ==
  \E r \in AllReqs :
    /\ Len(log[r].fileErrors) = 2
    /\ response[r].status = 422
    /\ log[r].registered = 1

\* the response of the catch block to a call answered with the errors array
\* [{message: "Throttled"}]
GraphQLFailure ==
  [status |-> 500, body |-> [error |-> "GraphQL errors: [{\"message\":\"Throttled\"}]"]]

\* C11: when a GraphQL call of a request (staging, registration or a status
\* query) is answered with a non-empty errors array, the request has answered
\* 500 {error} (no status field, so not the timeout response), and from then
\* on it makes no call and starts no timer: the failed call is not retried
\* and a failed status query is the last one, whatever the ceiling.
C11_RpcErrorsAbort ==
  /\ [](\A r \in AllReqs :
          log[r].rpcErrors # "none" =>
            /\ pc[r] = "done"
            /\ response[r] = GraphQLFailure
            /\ log[r].staged = 1
            /\ log[r].rpcErrors = "staging" => log[r].uploads = 0
            /\ log[r].rpcErrors = "registration" =>
                 log[r].registered = 1 /\ log[r].queries = 0
            /\ log[r].rpcErrors = "poll" => log[r].last.kind = "threw")
  /\ [][\A r \in AllReqs : log[r].rpcErrors # "none" => log'[r] = log[r]]_vars

C11_Witness ==
  \E r \in AllReqs :
    /\ log[r].rpcErrors = "poll"
    /\ log[r].queries = 2 /\ Ceiling = 30
    /\ response[r] = GraphQLFailure

\* C12: a request makes at most one staging call, one upload and one
\* registration call; the upload is sent only after the staging call was
\* answered without errors and without userErrors, the registration call only
\* after the upload was answered 2xx, and a status query only after the
\* registration call was answered without errors and without userErrors.
C12_PhasesInOrder ==
  \A r \in AllReqs :
    /\ log[r].staged <= 1 /\ log[r].uploads <= 1 /\ log[r].registered <= 1
    /\ log[r].uploads = 1 => log[r].staged = 1 /\ log[r].stage = "clean"
    /\ log[r].registered = 1 => log[r].uploads = 1 /\ log[r].upload = "2xx"
    /\ log[r].queries >= 1 => log[r].registered = 1 /\ log[r].register = "clean"
    /\ log[r].stage # "none" => log[r].staged = 1
    /\ log[r].upload # "none" => log[r].uploads = 1
    /\ log[r].register # "none" => log[r].registered = 1

C12_Witness ==
  \E r \in AllReqs :
    /\ log[r].staged = 1 /\ log[r].uploads = 1 /\ log[r].registered = 1
    /\ log[r].queries = 2
    /\ response[r] = [status |-> 200, body |-> [url |-> ImageUrl]]

\* C13: when every remote call returns or fails and every timer fires, a
\* request that arrived eventually sends a response with a non-empty body
\* (again and again every request that arrived has answered, and an answer
\* stays), and at no time has it made more status queries than the ceiling.
C13_AlwaysAnswersWithinBudget ==
  /\ [](\A r \in AllReqs : log[r].queries <= Ceiling)
  /\ []<>(\A r \in AllReqs :
            (pc[r] # "idle") =>
              (pc[r] = "done" /\ response[r] # Null /\ DOMAIN response[r].body # {}))

C13_Witness ==
  \E r \in AllReqs :
    /\ pc[r] = "done" /\ log[r].queries = 30 /\ Ceiling = 30
    /\ log[r].sleeps = 30
    /\ response[r] = Timeout("PENDING")

\* what the handler of request r holds and what was seen of it
Own(r) ==
  << pc[r], file[r], target[r], created[r], i[r], finalUrl[r], lastStatus[r],
     response[r], log[r] >>

\* some step of the handler of request r can be taken
CanStep(r) ==
  \/ ENABLED Receive(r)
  \/ ENABLED StagingReturns(r)
  \/ ENABLED UploadReturns(r)
  \/ ENABLED RegistrationReturns(r)
  \/ ENABLED PollReturns(r)
  \/ ENABLED TimerFires(r)

\* C14: with two requests in flight, a step changes the variables and the
\* observed calls of one request only and never the configuration, so a
\* request's response is decided by the answers to its own calls; and a
\* request that has not answered can always take its next step, in particular
\* while the other one waits between two status queries.
C14_RequestsIndependent ==
  /\ [][/\ \A r, q \in AllReqs : (r # q /\ Own(r)' # Own(r)) => Own(q)' = Own(q)
        /\ POLL_ATTEMPTS' = POLL_ATTEMPTS]_vars
  /\ [](\A r \in reqs : pc[r] # "done" => CanStep(r))

C14_Witness ==
  /\ pc[1] = "sleeping" /\ lastStatus[1] = "PROCESSING"
  /\ pc[2] = "done" /\ log[2].queries = 2
  /\ response[2] = [status |-> 200, body |-> [url |-> ImageUrl]]

\* the calls and timers that were seen of request r
Calls(r) ==
  << log[r].staged, log[r].uploads, log[r].registered, log[r].queries, log[r].sleeps >>

\* C15: a request sends at most one response, it has sent one exactly when
\* its handler has ended, and once the response is sent the response stays
\* as it is and no call of any kind (staging, upload, registration, status
\* query, so no cleanup or rollback either) and no timer follows.
C15_OneResponseThenNothing ==
  /\ [](\A r \in AllReqs :
          /\ log[r].responses <= 1
          /\ (log[r].responses = 1) <=> (response[r] # Null)
          /\ (response[r] # Null) <=> (pc[r] = "done"))
  /\ [][\A r \in AllReqs :
          response[r] # Null =>
            /\ response'[r] = response[r]
            /\ Calls(r)' = Calls(r)
            /\ log'[r].responses = log[r].responses]_vars

C15_Witness ==
  \E r \in AllReqs :
    /\ log[r].responses = 1 /\ log[r].upload = "refused"
    /\ log[r].staged = 1 /\ log[r].uploads = 1 /\ log[r].registered = 0
    /\ response[r].status = 500

\* the first n characters of s are the characters of prefix
HasPrefix(s, prefix) ==
  Len(s) >= Len(prefix) /\ \A k \in 1..Len(prefix) : s[k] = prefix[k]

\* the class of a MIME type: video/* VIDEO, image/* IMAGE, else FILE
ClassOf(mimetype) ==
  CASE HasPrefix(mimetype, <<"v","i","d","e","o","/">>) -> "VIDEO"
    [] HasPrefix(mimetype, <<"i","m","a","g","e","/">>) -> "IMAGE"
    [] OTHER -> "FILE"

\* C16: the contentType of the registration request is the class of the
\* file's MIME type (VIDEO for a type that starts with "video/", IMAGE for one
\* that starts with "image/", FILE for every other one); it is decided by the
\* MIME type alone.
C16_ContentTypeFromMimeType ==
  \A r \in AllReqs :
    log[r].files # Null =>
      /\ log[r].files.contentType = ClassOf(file[r].mimetype)
      /\ log[r].files.contentType \in {"VIDEO", "IMAGE", "FILE"}
      /\ \A f \in Files :
           f.mimetype = file[r].mimetype =>
             getShopifyContentType(f.mimetype) = log[r].files.contentType

C16_Witness ==
  \E r \in AllReqs :
    /\ log[r].files # Null
    /\ file[r].mimetype = <<"i","m","a","g","e","s","/","x">>
    /\ log[r].files.contentType = "FILE"

\* C17: the form posted to the staged upload URL of a target with N
\* parameters has N + 1 fields: field k is parameter k (name and value) for
\* k = 1..N, in the order of the target, repeated parameters included, and
\* field N + 1 is named "file" and carries the bytes, the original filename
\* and the MIME type.
C17_FormIsParametersThenFile ==
  \A r \in AllReqs :
    log[r].uploads = 1 =>
      LET ps == target[r].parameters
          form == log[r].form
      IN  /\ Len(form) = Len(ps) + 1
          /\ \A k \in 1..Len(ps) :
               form[k] = [name |-> ps[k].name, value |-> ps[k].value]
          /\ form[Len(ps) + 1] =
               [name |-> "file", value |-> file[r].buffer,
                filename |-> file[r].originalname, contentType |-> file[r].mimetype]

C17_Witness ==
  \E r \in AllReqs :
    /\ log[r].uploads = 1
    /\ Len(log[r].form) = 3
    /\ log[r].form[1] = log[r].form[2]
    /\ log[r].form[1].name = "acl"
    /\ log[r].form[3].filename = "cat.png"

\* C18 (as stated): every delay is followed by another status query: the
\* handler that leaves the delay sends a status query, and a request that has
\* answered has started fewer delays than it made status queries.
C18_DelayOnlyBeforeRetry ==
  /\ [][\A r \in AllReqs :
          (pc[r] = "sleeping" /\ pc'[r] # "sleeping") =>
            (pc'[r] = "polling" /\ log'[r].queries = log[r].queries + 1)]_vars
  /\ [](\A r \in AllReqs :
          (pc[r] = "done" /\ log[r].queries >= 1) => log[r].sleeps < log[r].queries)

\* C19: a response with status 200 is sent only when the last status query
\* was answered by a node with status READY and a non-empty URL in the field
\* of the node's own type tag, and its body is {url} with that URL; the
\* timeout response is sent only when no status query of the request was
\* answered by such a node.
C19_SuccessOnlyOnReadyWithUrl ==
  \A r \in AllReqs :
    pc[r] = "done" =>
      /\ response[r].status = 200 =>
           /\ LastIsReadyWithUrl(r)
           /\ response[r].body = [url |-> log[r].last.url]
      /\ TimedOut(r) => ~log[r].found

C19_Witness ==
  \E r \in AllReqs :
    /\ pc[r] = "done" /\ response[r].status = 200
    /\ log[r].readyNoUrl /\ log[r].queries = 3
    /\ response[r].body.url = VideoUrl

\* the configured ceiling is not a positive integer
NoBudget == POLL_ATTEMPTS.nan \/ POLL_ATTEMPTS.value <= 0

\* C20: with a ceiling that is 0, negative or NaN, a request whose staging,
\* upload and registration succeeded makes no status query and starts no
\* delay, and has answered 500 {error: "File did not become READY in time",
\* status: "UNKNOWN"}.
C20_NoBudgetNoQuery ==
  \A r \in AllReqs :
    NoBudget =>
      /\ log[r].queries = 0 /\ log[r].sleeps = 0
      /\ (log[r].register = "clean" /\ created[r] # Null) =>
           pc[r] = "done" /\ response[r] = Timeout("UNKNOWN")

C20_Witness ==
  \E r \in AllReqs :
    /\ POLL_ATTEMPTS.nan
    /\ log[r].stage = "clean" /\ log[r].upload = "2xx" /\ log[r].register = "clean"
    /\ created[r] # Null
    /\ response[r] = Timeout("UNKNOWN")

====
